---- MODULE Spec2Model ----
(***************************************************************************)
(* LLMOCRService.parse_fields of app/services/llm_ocr_service.py, in the   *)
(* two revisions the repository keeps under .history:                      *)
(*   r223536  llm_ocr_service_20251212223536.py  (three recovery stages,   *)
(*            per-field coercion, all-null fallback)                       *)
(*   r020545  llm_ocr_service_20251213020545.py  (latest revision: two     *)
(*            recovery stages, vergi_no cleaning and vergi_no fallback)    *)
(* One call of parse_fields is one behaviour: Init draws the call's inputs *)
(* (raw_text, fields, what the HTTP exchange gives back) and the actions   *)
(* are the successive blocks of the function body.                         *)
(*                                                                         *)
(* Text is a sequence of one-character strings.  A model reply is a        *)
(* sequence of JSON tokens (see Tok): json.loads is the operator Loads     *)
(* over such a sequence.  Python integers are unbounded, so an integer is  *)
(* kept as its decimal digit sequence without leading zeros.               *)
(***************************************************************************)
EXTENDS Integers, Sequences, FiniteSets, TLC

\* ------------------------------------------------------------- bounds
MaxMembers == 2     \* members of a JSON object in a reply
MaxProse   == 2     \* tokens of prose after (or before) the object
MaxSegs    == 3     \* segments a raw_text is built from
MaxFields  == 2     \* declared fields of one call

\* ------------------------------------------------------------- characters
Digits == {"0", "1", "2", "3", "4", "5", "6", "7", "8", "9"}

\* \s of the re module / what str.strip() removes
Spaces == {" ", "\n"}

\* the letters that occur in the texts of this model
Letters == {"A", "B", "D", "I", "N", "O", "T", "V",
            "a", "b", "d", "e", "g", "i", "m", "n", "o", "r", "t", "u", "v", "x", "z"}

\* \w of the re module: letters, digits and the underscore
IsWord(c) == c \in Letters \/ c \in Digits \/ c = "_"

IsDigit(c) == c \in Digits

IsSpace(c) == c \in Spaces

NotDigit(c) == ~IsDigit(c)

NotSpace(c) == ~IsSpace(c)

NotBlank(c) == c # " "

\* str.lower() on the letters the display names use
LowerChar(c) ==
  CASE c = "T" -> "t" [] c = "I" -> "i" [] c = "D" -> "d"
    [] c = "V" -> "v" [] c = "N" -> "n" [] OTHER -> c

Lower(s) == [i \in 1..Len(s) |-> LowerChar(s[i])]

\* needle in hay (substring test of Python's "in" on str)
Contains(hay, needle) ==
  \E i \in 0..(Len(hay) - Len(needle)) :
     \A j \in 1..Len(needle) : hay[i + j] = needle[j]

\* str.strip(): leading and trailing whitespace removed, the interior kept
Strip(s) ==
  LET keep == {i \in 1..Len(s) : ~IsSpace(s[i])}
  IN  IF keep = {} THEN <<>>
      ELSE LET lo == CHOOSE i \in keep : \A j \in keep : i <= j
               hi == CHOOSE i \in keep : \A j \in keep : j <= i
           IN  SubSeq(s, lo, hi)

\* the decimal digits of an integer: leading zeros dropped, "0" for zero
NormDigits(d) ==
  LET nz == {i \in 1..Len(d) : d[i] # "0"}
  IN  IF nz = {} THEN <<"0">>
      ELSE SubSeq(d, CHOOSE i \in nz : \A j \in nz : i <= j, Len(d))

\* ------------------------------------------------------------- values
\* a Python value as json.loads can produce it (and an int that int() makes):
\* kind and s, where s is the text of a str, the digits of an int, and
\* str(value) for the other kinds
NullV == [kind |-> "null", s |-> <<>>]

StrV(s) == [kind |-> "str", s |-> s]

IntV(d) == [kind |-> "int", s |-> NormDigits(d)]

TrueV == [kind |-> "bool", s |-> <<"T", "r", "u", "e">>]

FloatV == [kind |-> "float", s |-> <<"1", ".", "5">>]

ListV == [kind |-> "list", s |-> <<"[", "1", "]">>]

\* bool(value): None, 0, "" are falsy
Truthy(v) ==
  CASE v.kind = "null" -> FALSE
    [] v.kind = "str"  -> v.s # <<>>
    [] v.kind = "int"  -> v.s # <<"0">>
    [] OTHER -> TRUE

\* isinstance(value, int): bool is a subclass of int
IsInstanceInt(v) == v.kind \in {"int", "bool"}

\* int(text): surrounding whitespace is stripped, what remains must be
\* decimal digits; ok = FALSE is the ValueError
PyInt(s) ==
  LET t == Strip(s)
  IN  IF t # <<>> /\ \A i \in 1..Len(t) : IsDigit(t[i])
      THEN [ok |-> TRUE, v |-> IntV(t)]
      ELSE [ok |-> FALSE, v |-> NullV]

\* ------------------------------------------------------------- JSON text
\* A reply text is a sequence of tokens [t, k, v]:
\*   lb, rb  the characters { and }
\*   mem     one member "k": v of an object, with the comma that separates it
\*   val     a JSON literal that is not an object (number, string, null, array)
\*   txt     a word of prose or a code fence: no brace in it, not JSON
\*   ws      whitespace
Tok(t, k, v) == [t |-> t, k |-> k, v |-> v]

LB == Tok("lb", "", NullV)

RB == Tok("rb", "", NullV)

TXT == Tok("txt", "", NullV)

WS == Tok("ws", "", NullV)

Mem(k, v) == Tok("mem", k, v)

Val(v) == Tok("val", "", v)

EmptyDict == [k \in {} |-> NullV]

\* what json.loads gives: ok = FALSE is json.JSONDecodeError; otherwise a dict
\* d (isdict) or another value v
NoParse == [ok |-> FALSE, isdict |-> FALSE, d |-> EmptyDict, v |-> NullV]

DictResult(d) == [ok |-> TRUE, isdict |-> TRUE, d |-> d, v |-> NullV]

ValueResult(v) == [ok |-> TRUE, isdict |-> FALSE, d |-> EmptyDict, v |-> v]

\* str.strip() on a reply text
StripToks(toks) ==
  LET keep == {i \in 1..Len(toks) : toks[i].t # "ws"}
  IN  IF keep = {} THEN <<>>
      ELSE LET lo == CHOOSE i \in keep : \A j \in keep : i <= j
               hi == CHOOSE i \in keep : \A j \in keep : j <= i
           IN  SubSeq(toks, lo, hi)

\* json.loads(text): the whole text, surrounding whitespace aside, must be one
\* JSON value; in an object a repeated key keeps its last value
Loads(toks) ==
  LET t == StripToks(toks)
      n == Len(t)
  IN  IF n = 1 /\ t[1].t = "val" THEN ValueResult(t[1].v)
      ELSE IF n >= 2 /\ t[1].t = "lb" /\ t[n].t = "rb"
              /\ \A i \in 2..(n - 1) : t[i].t \in {"mem", "ws"}
      THEN LET mems == {i \in 2..(n - 1) : t[i].t = "mem"}
               keys == {t[i].k : i \in mems}
               last(k) == CHOOSE i \in mems :
                             t[i].k = k /\ \A j \in mems : t[j].k = k => j <= i
           IN  DictResult([k \in keys |-> t[last(k)].v])
      ELSE NoParse

\* a slip: rfind where find is meant, the last { instead of the first
FindLB_Last(toks) ==
  LET at == {i \in 1..Len(toks) : toks[i].t = "lb"}
  IN  IF at = {} THEN 0 ELSE CHOOSE i \in at : \A j \in at : j <= i

\* text.find("{") and text.rfind("}"), 1-based; 0 is Python's -1
FindLB(toks) ==
  LET at == {i \in 1..Len(toks) : toks[i].t = "lb"}
  IN  IF at = {} THEN 0 ELSE CHOOSE i \in at : \A j \in at : i <= j

RFindRB(toks) ==
  LET at == {i \in 1..Len(toks) : toks[i].t = "rb"}
  IN  IF at = {} THEN 0 ELSE CHOOSE i \in at : \A j \in at : j <= i

\* text[first : last + 1]
Candidate(toks, first, last) == SubSeq(toks, first, last)

\* a slip: the lazy pattern \{[\s\S]*?\}, which stops at the first } after
\* the leftmost {
GreedyBraceBlock_Lazy(toks) ==
  LET starts == {i \in 1..Len(toks) :
                   toks[i].t = "lb" /\ \E j \in (i + 1)..Len(toks) : toks[j].t = "rb"}
  IN  IF starts = {} THEN [found |-> FALSE, block |-> <<>>]
      ELSE LET i == CHOOSE a \in starts : \A b \in starts : a <= b
               ends == {j \in (i + 1)..Len(toks) : toks[j].t = "rb"}
               j == CHOOSE a \in ends : \A b \in ends : a <= b
           IN  [found |-> TRUE, block |-> SubSeq(toks, i, j)]

\* re.search(r"\{[\s\S]*\}", text) and re.search(r"\{.*\}", text, re.DOTALL):
\* the leftmost { that has a } after it, extended greedily to the last }
GreedyBraceBlock(toks) ==
  LET starts == {i \in 1..Len(toks) :
                   toks[i].t = "lb" /\ \E j \in (i + 1)..Len(toks) : toks[j].t = "rb"}
  IN  IF starts = {} THEN [found |-> FALSE, block |-> <<>>]
      ELSE LET i == CHOOSE a \in starts : \A b \in starts : a <= b
               ends == {j \in (i + 1)..Len(toks) : toks[j].t = "rb"}
               j == CHOOSE a \in ends : \A b \in ends : b <= a
           IN  [found |-> TRUE, block |-> SubSeq(toks, i, j)]

\* r223536, lines 65-91: direct parse, then first { .. last }, then the regex
Recover223536(text) ==
  IF text = <<>> THEN DictResult(EmptyDict)
  ELSE LET direct == Loads(text)
       IN  IF direct.ok THEN direct
           ELSE LET first == FindLB(text)
                    last == RFindRB(text)
                IN  IF first # 0 /\ last # 0 /\ last > first
                    THEN LET second == Loads(Candidate(text, first, last))
                         IN  IF second.ok THEN second
                             ELSE LET m == GreedyBraceBlock(text)
                                  IN  IF m.found /\ Loads(m.block).ok
                                      THEN Loads(m.block)
                                      ELSE DictResult(EmptyDict)
                    ELSE DictResult(EmptyDict)

\* r020545, lines 63-74: direct parse, then the regex
Recover020545(text) ==
  LET direct == Loads(text)
  IN  IF direct.ok THEN direct
      ELSE LET m == GreedyBraceBlock(text)
           IN  IF m.found /\ Loads(m.block).ok
               THEN Loads(m.block)
               ELSE DictResult(EmptyDict)

\* ------------------------------------------------------------- fields
\* str.lower() of a declared type
TypeLower(t) ==
  CASE t = "Integer" -> "integer" [] t = "String" -> "string" [] OTHER -> t

\* result.get(key) if isinstance(result, dict) else None
GetRaw(result, key) ==
  IF result.isdict /\ key \in DOMAIN result.d THEN result.d[key] ELSE NullV

\* re.sub(r"\D", "", s)
OnlyDigits(s) == SelectSeq(s, IsDigit)

\* r223536, lines 96-123: the value stored in processed[key]
Coerce(expected, raw_value) ==
  IF raw_value.kind = "null" THEN NullV
  ELSE IF TypeLower(expected.type) = "integer"
       THEN IF IsInstanceInt(raw_value) THEN raw_value
            ELSE IF raw_value.kind = "str"
                 THEN LET digits == OnlyDigits(Strip(raw_value.s))
                      IN  IF digits # <<>> THEN IntV(digits) ELSE NullV
                 ELSE NullV
       ELSE IF raw_value.kind = "str" THEN StrV(Strip(raw_value.s))
            ELSE raw_value

\* r223536, lines 94-123: the loop over fields.items()
PostProcess(flds, result) ==
  [key \in DOMAIN flds |-> Coerce(flds[key], GetRaw(result, key))]

\* ------------------------------------------------------------- fallback
TaxRunLen == 11

MinTail == 9

VERGI == <<"v", "e", "r", "g", "i">>

TAX == <<"t", "a", "x">>

\* r223536, line 127: all(v is None for v in processed.values())
AllNone(rec) == \A k \in DOMAIN rec : rec[k].kind = "null"

\* r223536, line 130: re.sub(r"\s+", "", raw_text)
Compact(text) == SelectSeq(text, NotSpace)

\* r223536, line 131: re.findall(r"\d{11}", compact), its first element
\* (found = FALSE: the list is empty)
TaxMatches(compact) ==
  LET at == {i \in 1..(Len(compact) - TaxRunLen + 1) :
               \A j \in 0..(TaxRunLen - 1) : IsDigit(compact[i + j])}
  IN  IF at = {} THEN [found |-> FALSE, first |-> <<>>]
      ELSE LET i == CHOOSE a \in at : \A b \in at : a <= b
           IN  [found |-> TRUE, first |-> SubSeq(compact, i, i + TaxRunLen - 1)]

\* r223536, lines 135-136: "vergi" in name or "tax" in name
IsTaxField(conf) ==
  LET name == Lower(conf.name)
  IN  Contains(name, VERGI) \/ Contains(name, TAX)

\* r223536, lines 134-141: the keys the loop assigns
TaxKeys(flds) == {key \in DOMAIN flds : IsTaxField(flds[key])}

\* r223536, lines 127-141
Fallback223536(flds, text, rec) ==
  IF AllNone(rec)
  THEN LET tax_matches == TaxMatches(Compact(text))
       IN  IF tax_matches.found
           THEN [key \in DOMAIN rec |->
                   IF key \in TaxKeys(flds) THEN PyInt(tax_matches.first).v
                   ELSE rec[key]]
           ELSE rec
  ELSE rec

\* \b between text[p] and text[p + 1] (p = 0: the start, p = Len: the end)
WordBoundary(text, p) ==
  (p >= 1 /\ IsWord(text[p])) # (p + 1 <= Len(text) /\ IsWord(text[p + 1]))

\* r020545, line 86: re.search(r"\b(\d[\d\s]{9,})\b", raw_text), group(1):
\* the leftmost start, and from it the longest extent
SearchVergiNo(text) ==
  LET n == Len(text)
      Ends(i) == {j \in (i + MinTail)..n :
                    /\ \A k \in (i + 1)..j : IsDigit(text[k]) \/ IsSpace(text[k])
                    /\ WordBoundary(text, j)}
      starts == {i \in 1..n :
                   IsDigit(text[i]) /\ WordBoundary(text, i - 1) /\ Ends(i) # {}}
  IN  IF starts = {} THEN [found |-> FALSE, group |-> <<>>]
      ELSE LET i == CHOOSE a \in starts : \A b \in starts : a <= b
               j == CHOOSE a \in Ends(i) : \A b \in Ends(i) : b <= a
           IN  [found |-> TRUE, group |-> SubSeq(text, i, j)]

\* str.replace(" ", "")
RemoveBlanks(s) == SelectSeq(s, NotBlank)

VERGI_NO == "vergi_no"

\* str(value)
PyStr(v) == v.s

\* result["vergi_no"] = value
SetItem(d, key, value) ==
  [k \in DOMAIN d \cup {key} |-> IF k = key THEN value ELSE d[k]]

\* r020545, line 77: "vergi_no" in result and result["vergi_no"]
HasVergiNo(d) == VERGI_NO \in DOMAIN d /\ Truthy(d[VERGI_NO])

\* r020545, lines 78-83: int(str(v).replace(" ", "").strip()), None on ValueError
CleanVergiNo(v) ==
  LET r == PyInt(Strip(RemoveBlanks(PyStr(v))))
  IN  IF r.ok THEN r.v ELSE NullV

\* r020545, lines 86-90: the value assigned by the regex branch; ok = FALSE is
\* the ValueError of int() on a group that still holds a line break
RegexVergiNo(text) ==
  LET m == SearchVergiNo(text)
  IN  IF m.found THEN PyInt(RemoveBlanks(m.group))
      ELSE [ok |-> TRUE, v |-> NullV]

\* r020545, lines 76-90.  rec: result after the block; before: result as the
\* regex branch found it (as the cleaning left it, when that branch is not
\* taken); regex: the regex branch ran; error: the exception that escapes
VergiNo(res, text) ==
  CASE ~res.isdict ->
         [rec |-> EmptyDict, before |-> EmptyDict, regex |-> FALSE, error |-> "TypeError"]
    [] res.isdict /\ HasVergiNo(res.d) ->
         LET cleaned == SetItem(res.d, VERGI_NO, CleanVergiNo(res.d[VERGI_NO]))
         IN  [rec |-> cleaned, before |-> cleaned, regex |-> FALSE, error |-> ""]
    [] OTHER ->
         LET r == RegexVergiNo(text)
         IN  IF r.ok
             THEN [rec |-> SetItem(res.d, VERGI_NO, r.v), before |-> res.d,
                   regex |-> TRUE, error |-> ""]
             ELSE [rec |-> res.d, before |-> res.d, regex |-> TRUE,
                   error |-> "ValueError"]

\* ------------------------------------------------------------- inputs
\* the value found under "response": a str (its text in toks), None or a number
ReplyStr(toks) == [kind |-> "str", toks |-> toks]

ReplyNone == [kind |-> "null", toks |-> <<>>]

ReplyNumber == [kind |-> "int", toks |-> <<>>]

\* the body of the HTTP response:
\*   top       {"response": reply}
\*   nested    {"data": [{"response": reply}]}
\*   nokey     {"data": [{}]}
\*   emptydata {"data": []}
\*   neither   an object with neither key, e.g. {"error": "..."}
\*   list      JSON, but an array
\*   notjson   not JSON at all
Body(shape, reply) == [shape |-> shape, reply |-> reply]

\* how the one request ends: a response with a success status, a response
\* with a non-success status, no response (transport failure, timeout)
NetOutcomes == {"ok", "status", "transport", "timeout"}

Revisions == {"r223536", "r020545"}

Conf(type, name) == [type |-> type, name |-> name]

FieldPool ==
  [k \in {"taxId", "vergi_no", "name"} |->
     CASE k = "taxId"    -> Conf("Integer", <<"T", "a", "x", " ", "I", "D">>)
       [] k = "vergi_no" -> Conf("string", <<"V", "e", "r", "g", "i", " ", "N", "o">>)
       [] OTHER          -> Conf("String", <<"N", "a", "m", "e">>)]

FieldsOf(keys) == [k \in keys |-> FieldPool[k]]

FieldSets ==
  {FieldsOf(keys) : keys \in {K \in SUBSET DOMAIN FieldPool : Cardinality(K) <= MaxFields}}

\* all sequences over S of length at most n
RECURSIVE SeqsUpTo(_, _)
SeqsUpTo(S, n) ==
  IF n = 0 THEN {<<>>}
  ELSE LET shorter == SeqsUpTo(S, n - 1)
       IN  shorter \cup {Append(q, x) : q \in shorter, x \in S}

RECURSIVE Flatten(_)
Flatten(ss) == IF ss = <<>> THEN <<>> ELSE Head(ss) \o Flatten(Tail(ss))

Segments ==
  { <<"1", "2", "3", "4", "5">>, <<"6", "7", "8", "9", "0">>, <<"1">>,
    <<"1", " ", "2", " ", "3", " ">>,
    <<" ">>, <<"\n">>, <<"N", "O", ":", " ">>, <<"A">> }

RawTexts == {Flatten(ss) : ss \in SeqsUpTo(Segments, MaxSegs)}

\* "NO: 12345678901": a label and a run of eleven digits
RefText ==
  <<"N", "O", ":", " ", "1", "2", "3", "4", "5", "6", "7", "8", "9", "0", "1">>

Values ==
  { NullV, StrV(<<"1", "2", " ", "3", "4">>), StrV(<<"N", "/", "A">>),
    StrV(<<" ", "B", "o", "b", "\n">>), StrV(<<>>), IntV(<<"7">>), IntV(<<"0">>),
    TrueV, FloatV, ListV }

\* the keys a reply may use, in the order the reply writes them
MemberKeys == <<"taxId", "vergi_no", "name", "extra">>

InKeys(K) == LET in(k) == k \in K IN SelectSeq(MemberKeys, in)

\* the text of an object with the given members
ObjectText(mems) == <<LB>> \o mems \o <<RB>>

\* the object whose members are the keys of f, f[k] under k
ObjectOf(f) ==
  LET ks == InKeys(DOMAIN f)
  IN  ObjectText([i \in 1..Len(ks) |-> Mem(ks[i], f[ks[i]])])

\* the objects with at most n members, each under a key of its own
ObjectsOver(n) ==
  UNION { {ObjectOf(f) : f \in [K -> Values]} :
            K \in {J \in SUBSET {MemberKeys[i] : i \in 1..Len(MemberKeys)} :
                     Cardinality(J) <= n} }

ObjectTexts(pool, n) == {ObjectText(mems) : mems \in SeqsUpTo(pool, n)}

FewMembers ==
  { Mem("taxId", StrV(<<"1", "2", " ", "3", "4">>)),
    Mem("taxId", NullV),
    Mem("name", StrV(<<" ", "B", "o", "b", "\n">>)) }

ProseTokens == {TXT, WS, LB, RB}

Literals == {Val(NullV), Val(IntV(<<"7">>)), Val(StrV(<<"N", "/", "A">>)), Val(ListV)}

\* replies around an object: at most one token before it, prose after it
WrappedReplies ==
  { pre \o obj \o post :
      pre \in SeqsUpTo(ProseTokens, 1),
      obj \in ObjectTexts(FewMembers, MaxMembers) \cup {<<>>},
      post \in SeqsUpTo(ProseTokens, MaxProse) }
  \cup { <<l>> : l \in Literals }

Bodies ==
  { Body("top", r) : r \in {ReplyStr(<<TXT>>), ReplyStr(<<>>), ReplyNone, ReplyNumber,
                             ReplyStr(ObjectText(<<Mem("name", StrV(<<"N", "/", "A">>))>>))} }
  \cup { Body("nested", ReplyStr(ObjectText(<<Mem("taxId", IntV(<<"7">>))>>))) }
  \cup { Body(sh, ReplyNone) : sh \in {"nokey", "emptydata", "neither", "list", "notjson"} }

\* ------------------------------------------------------------- one call
VARIABLES
  rev,          \* the revision of parse_fields that runs
  raw_text,     \* argument raw_text
  fields,       \* argument fields: key -> {"type", "name"}
  net,          \* how the request ends (NetOutcomes)
  body,         \* the body of the response, when there is one
  pc,           \* the block of parse_fields about to run
  requests,     \* POST requests issued so far
  result_text,  \* local result_text
  result,       \* local result (what the recovery stages give)
  processed,    \* r223536: local processed; r020545: result once it is a dict
  coerced,      \* the record as it was before the regex on raw_text
  fb_ran,       \* the regex on raw_text was evaluated
  outcome,      \* "running", "returned" (processed is the record) or "raised"
  cause         \* the exception wrapped into "Ollama API error: ..."

vars == <<rev, raw_text, fields, net, body, pc, requests, result_text, result,
          processed, coerced, fb_ran, outcome, cause>>

inputs == <<rev, raw_text, fields, net, body>>

Start ==
  /\ pc = "post"
  /\ requests = 0
  /\ result_text = ReplyStr(<<>>)
  /\ result = NoParse
  /\ processed = EmptyDict
  /\ coerced = EmptyDict
  /\ fb_ran = FALSE
  /\ outcome = "running"
  /\ cause = ""

\* calls that differ in the members of the object the model replies
InitCoerce ==
  /\ net = "ok"
  /\ raw_text = RefText
  /\ fields \in FieldSets
  /\ body \in {Body("top", ReplyStr(t)) : t \in ObjectsOver(MaxMembers)}

\* calls that differ in what surrounds the object in the reply
InitRecover ==
  /\ net = "ok"
  /\ raw_text = RefText
  /\ fields \in {FieldsOf({"taxId", "name"}), FieldsOf({"vergi_no"})}
  /\ body \in {Body("top", ReplyStr(t)) : t \in WrappedReplies}

\* calls whose reply holds no value, and that differ in raw_text
InitFallback ==
  /\ net = "ok"
  /\ raw_text \in RawTexts
  /\ fields \in FieldSets
  /\ body \in {Body("top", ReplyStr(<<TXT>>)), Body("top", ReplyStr(ObjectText(<<>>)))}

\* calls that differ in how the request ends and in the response envelope
InitNet ==
  /\ net \in NetOutcomes
  /\ raw_text = RefText
  /\ fields = FieldsOf({"taxId", "name"})
  /\ body \in Bodies

Init ==
  /\ rev \in Revisions
  /\ InitCoerce \/ InitRecover \/ InitFallback \/ InitNet
  /\ Start

\* except Exception as e: raise Exception(f"Ollama API error: {str(e)}")
Raise(e) ==
  /\ pc' = "done"
  /\ outcome' = "raised"
  /\ cause' = e

\* lines 51-56 (r223536), 50-54 (r020545): the one POST; httpx raises when no
\* response arrives, and nothing looks at the status of one that does
Post ==
  /\ pc = "post"
  /\ requests' = requests + 1
  /\ IF net \in {"transport", "timeout"}
     THEN Raise(net)
     ELSE pc' = "envelope" /\ UNCHANGED <<outcome, cause>>
  /\ UNCHANGED <<inputs, result_text, result, processed, coerced, fb_ran>>

\* r223536, lines 59-63
ReadEnvelope_223536 ==
  /\ pc = "envelope" /\ rev = "r223536"
  /\ LET got == IF body.shape = "top" THEN body.reply ELSE ReplyStr(<<>>)
         text == IF got.kind = "null" THEN ReplyStr(<<>>) ELSE got
     IN  CASE body.shape = "notjson" ->
                Raise("JSONDecodeError") /\ UNCHANGED result_text
           [] body.shape = "list" ->
                Raise("AttributeError") /\ UNCHANGED result_text
           [] body.shape \notin {"notjson", "list"} /\ text.kind # "str" ->
                Raise("AttributeError") /\ UNCHANGED result_text
           [] OTHER ->
                /\ result_text' = ReplyStr(StripToks(text.toks))
                /\ pc' = "recover"
                /\ UNCHANGED <<outcome, cause>>
  /\ UNCHANGED <<inputs, requests, result, processed, coerced, fb_ran>>

\* r020545, lines 56-61
ReadEnvelope_020545 ==
  /\ pc = "envelope" /\ rev = "r020545"
  /\ IF body.shape = "notjson"
     THEN Raise("JSONDecodeError") /\ UNCHANGED result_text
     ELSE /\ result_text' = IF body.shape \in {"top", "nested"} THEN body.reply
                             ELSE ReplyStr(<<>>)
          /\ pc' = "recover"
          /\ UNCHANGED <<outcome, cause>>
  /\ UNCHANGED <<inputs, requests, result, processed, coerced, fb_ran>>

\* r223536, lines 65-91
Recover_223536 ==
  /\ pc = "recover" /\ rev = "r223536"
  /\ result' = Recover223536(result_text.toks)
  /\ pc' = "process"
  /\ UNCHANGED <<inputs, requests, result_text, processed, coerced, fb_ran, outcome, cause>>

\* r020545, lines 63-74: json.loads and then re.search raise TypeError on a
\* result_text that is no str
Recover_020545 ==
  /\ pc = "recover" /\ rev = "r020545"
  /\ IF result_text.kind # "str"
     THEN Raise("TypeError") /\ UNCHANGED result
     ELSE /\ result' = Recover020545(result_text.toks)
          /\ pc' = "process"
          /\ UNCHANGED <<outcome, cause>>
  /\ UNCHANGED <<inputs, requests, result_text, processed, coerced, fb_ran>>

\* r223536, lines 93-123
PostProcess_223536 ==
  /\ pc = "process" /\ rev = "r223536"
  /\ processed' = PostProcess(fields, result)
  /\ coerced' = processed'
  /\ pc' = "fallback"
  /\ UNCHANGED <<inputs, requests, result_text, result, fb_ran, outcome, cause>>

\* r223536, lines 125-141
Fallback_223536 ==
  /\ pc = "fallback" /\ rev = "r223536"
  /\ fb_ran' = AllNone(processed)
  /\ processed' = Fallback223536(fields, raw_text, processed)
  /\ pc' = "return"
  /\ UNCHANGED <<inputs, requests, result_text, result, coerced, outcome, cause>>

\* r020545, lines 76-90: "vergi_no" in result raises TypeError on a number or
\* None, and the item assignment raises it on a list or a str
VergiNo_020545 ==
  /\ pc = "process" /\ rev = "r020545"
  /\ LET o == VergiNo(result, raw_text)
     IN  /\ fb_ran' = o.regex
         /\ coerced' = o.before
         /\ processed' = o.rec
         /\ IF o.error = ""
            THEN pc' = "return" /\ UNCHANGED <<outcome, cause>>
            ELSE Raise(o.error)
  /\ UNCHANGED <<inputs, requests, result_text, result>>

\* return processed (r223536, line 142), return result (r020545, line 92)
Return ==
  /\ pc = "return"
  /\ pc' = "done"
  /\ outcome' = "returned"
  /\ UNCHANGED <<inputs, requests, result_text, result, processed, coerced, fb_ran, cause>>

Next ==
  \/ Post
  \/ ReadEnvelope_223536
  \/ ReadEnvelope_020545
  \/ Recover_223536
  \/ Recover_020545
  \/ PostProcess_223536
  \/ Fallback_223536
  \/ VergiNo_020545
  \/ Return

Spec == Init /\ [][Next]_vars

\* the record handed to the caller
Returned == pc = "done" /\ outcome = "returned"

TypeOK ==
  /\ pc \in {"post", "envelope", "recover", "process", "fallback", "return", "done"}
  /\ outcome \in {"running", "returned", "raised"}
  /\ requests \in 0..1

\* ------------------------------------------------------------- vocabulary of the claims
\* the reply text the model produced, when the envelope carries one
HasReplyText == net = "ok" /\ body.shape = "top" /\ body.reply.kind = "str"

ReplyToks == body.reply.toks

\* no recovery stage can make an object of the text
Unparsable(toks) ==
  /\ ~Loads(toks).ok
  /\ LET m == GreedyBraceBlock(toks) IN ~(m.found /\ Loads(m.block).ok)

\* a digit run of a text: from a digit to a digit, digits and whitespace in
\* between, not part of a longer such stretch; <<i, j>> are its ends
IsRunStart(text, i) ==
  /\ IsDigit(text[i])
  /\ ~\E p \in 1..(i - 1) :
         IsDigit(text[p]) /\ \A k \in (p + 1)..(i - 1) : IsSpace(text[k])

RunEnd(text, i) ==
  LET ends == {j \in i..Len(text) :
                 IsDigit(text[j]) /\ \A k \in i..j : IsDigit(text[k]) \/ IsSpace(text[k])}
  IN  CHOOSE j \in ends : \A e \in ends : e <= j

\* the digits of each run, the whitespace between them removed
RunDigits(text) ==
  {OnlyDigits(SubSeq(text, i, RunEnd(text, i))) : i \in {a \in 1..Len(text) : IsRunStart(text, a)}}

\* "at least ten digits": the digit \d and the nine characters after it
MinRunDigits == MinTail + 1

LongRuns(text) == {d \in RunDigits(text) : Len(d) >= MinRunDigits}

\* the keys whose value the regex on raw_text set or changed
FilledKeys ==
  {k \in DOMAIN processed : k \notin DOMAIN coerced \/ processed[k] # coerced[k]}

IsIntegerField(k) == TypeLower(fields[k].type) = "integer"

\* ------------------------------------------------------------- claims
\* C1: the record returned by parse_fields has exactly the declared field
\* keys: every declared key is present and no other key appears.
C1_ExactKeys == Returned => DOMAIN processed = DOMAIN fields

\* C1 on revision r223536 alone
C1_ExactKeys_r223536 == (Returned /\ rev = "r223536") => DOMAIN processed = DOMAIN fields

\* C2: the regex fallback runs if and only if every value of the coerced
\* record is Null; when some declared field is coerced to a non-Null value
\* (0 and "" included) the fallback does not run and the returned record is
\* the coerced record.
C2_FallbackIffAllNull ==
  Returned =>
    /\ fb_ran <=> AllNone(coerced)
    /\ ~AllNone(coerced) => processed = coerced

\* C2 on revision r223536 alone
C2_FallbackIffAllNull_r223536 ==
  (Returned /\ rev = "r223536") =>
    /\ fb_ran <=> AllNone(coerced)
    /\ ~AllNone(coerced) => processed = coerced

\* C3: once the request has completed with a response, parse_fields never
\* raises, whatever the envelope and the reply are: the only error that
\* reaches the caller is a communication error.
C3_OnlyCommunicationErrors ==
  (pc = "done" /\ outcome = "raised") => net \in {"status", "transport", "timeout"}

\* C4: when the one request ends in a transport failure, a non-success
\* status or a timeout, parse_fields raises the wrapped error: it returns no
\* record, does not go on to read the body or to run the fallback, and
\* issues no second request.
C4_FailedRequestRaises ==
  net # "ok" =>
    /\ pc \in {"post", "done"}
    /\ pc = "done" => outcome = "raised"
    /\ ~fb_ran
    /\ requests <= 1

\* C5: when the reply is unparsable, raw_text holds a run of at least ten
\* digits and exactly one declared field has a display name with the
\* fallback keyword, the final record holds that digit run under that
\* field's key: as an integer if the field is declared Integer, as a digit
\* string otherwise.
C5_FallbackFillsKeywordField ==
  ( /\ pc = "done"
    /\ HasReplyText
    /\ Unparsable(ReplyToks)
    /\ LongRuns(raw_text) # {}
    /\ Cardinality(TaxKeys(fields)) = 1 )
  => /\ outcome = "returned"
     /\ \A k \in TaxKeys(fields) :
          /\ k \in DOMAIN processed
          /\ \E d \in LongRuns(raw_text) :
               processed[k] = IF IsIntegerField(k) THEN IntV(d) ELSE StrV(d)

\* C6: in any run of parse_fields the fallback changes the value of at most
\* one field of the record, also when several declared fields have a display
\* name with the fallback keyword.
C6_AtMostOneFieldFilled ==
  pc \in {"return", "done"} => Cardinality(FilledKeys) <= 1

\* C7: whenever the fallback fills a field, the value it writes is the digits
\* of one run of raw_text that has at least ten digits, complete and in
\* order, the whitespace inside it removed: a run of fewer than ten digits
\* never triggers the fill and a longer run is never truncated.
C7_FilledValueIsAWholeRun ==
  Returned =>
    \A k \in FilledKeys :
       processed[k].kind # "null" =>
         \E d \in LongRuns(raw_text) : processed[k].s = NormDigits(d) \/ processed[k].s = d

\* the coercion C8 states for a field declared Integer
IntegerRule(v) ==
  CASE v.kind = "int" -> v
    [] v.kind = "str" -> IF OnlyDigits(v.s) # <<>> THEN IntV(OnlyDigits(v.s)) ELSE NullV
    [] OTHER -> NullV

\* C8: for a field declared Integer the coercion gives the value itself when
\* it is a whole number, for a text the integer of its digit characters (Null
\* when it has none), and Null for every other kind of value.
C8_IntegerCoercion ==
  (rev = "r223536" /\ pc = "fallback") =>
    \A k \in DOMAIN fields :
       IsIntegerField(k) => processed[k] = IntegerRule(GetRaw(result, k))

\* C10: every value of every returned record is Null, a string or an
\* integer, whatever kind of value the model replied.
C10_ValueKinds ==
  (Returned /\ rev = "r223536") => \A k \in DOMAIN processed : processed[k].kind \in {"null", "str", "int"}

\* the reply is a well-formed object at its very start, followed by prose
\* (words, whitespace, braces); ObjectEnd is where the object closes
ObjectEnd(toks) ==
  LET at == {i \in 1..Len(toks) : toks[i].t = "rb"}
  IN  IF at = {} THEN 0 ELSE CHOOSE i \in at : \A j \in at : i <= j

ObjectPart(toks) == SubSeq(toks, 1, ObjectEnd(toks))

ProsePart(toks) == SubSeq(toks, ObjectEnd(toks) + 1, Len(toks))

IsObjectThenProse(toks) ==
  /\ toks # <<>> /\ toks[1].t = "lb"
  /\ Loads(ObjectPart(toks)).isdict
  /\ ProsePart(toks) # <<>>
  /\ \A i \in 1..Len(ProsePart(toks)) : ProsePart(toks)[i].t \in {"txt", "ws", "lb", "rb"}

HasClosingBrace(toks) == \E i \in 1..Len(toks) : toks[i].t = "rb"

\* what the blocks after the recovery make of a recovered value: the record,
\* or no record when an exception escapes
FinalOf(res) ==
  IF rev = "r223536"
  THEN [returned |-> TRUE, rec |-> Fallback223536(fields, raw_text, PostProcess(fields, res))]
  ELSE LET o == VergiNo(res, raw_text)
       IN  [returned |-> o.error = "", rec |-> o.rec]

RecoversTheObject ==
  /\ pc \in {"process", "fallback", "return", "done"} => result = Loads(ObjectPart(ReplyToks))
  /\ pc = "done" =>
       LET f == FinalOf(Loads(ObjectPart(ReplyToks)))
       IN  /\ (outcome = "returned") = f.returned
           /\ f.returned => processed = f.rec

\* C9 as stated: for every reply that is a well-formed object followed by
\* arbitrary trailing prose, braces in the prose included, the recovery
\* stages return exactly that object and the final record is the record
\* obtained from the object alone.
C9_ObjectThenAnyProse ==
  (HasReplyText /\ IsObjectThenProse(ReplyToks)) => RecoversTheObject

\* C9 amended: the same, for trailing prose that holds no closing brace
\* (an opening brace in the prose does no harm).
C9_ObjectThenProseWithoutClosingBrace ==
  (HasReplyText /\ IsObjectThenProse(ReplyToks) /\ ~HasClosingBrace(ProsePart(ReplyToks)))
    => RecoversTheObject

\* C9 witness: a returned record with a recovered value, from a reply whose
\* object is followed by a word and an opening brace
C9_Witness ==
  /\ Returned
  /\ HasReplyText /\ IsObjectThenProse(ReplyToks)
  /\ ProsePart(ReplyToks) = <<TXT, LB>>
  /\ \E k \in DOMAIN processed : k \in DOMAIN fields /\ processed[k].kind # "null"

\* the extractor made of stages 1 and 2 of r223536 only
RecoverTwoStages(text) ==
  IF text = <<>> THEN DictResult(EmptyDict)
  ELSE IF Loads(text).ok THEN Loads(text)
  ELSE IF FindLB(text) # 0 /\ RFindRB(text) # 0 /\ RFindRB(text) > FindLB(text)
          /\ Loads(SubSeq(text, FindLB(text), RFindRB(text))).ok
       THEN Loads(SubSeq(text, FindLB(text), RFindRB(text)))
       ELSE DictResult(EmptyDict)

\* stage 2 was tried on the text and its candidate did not parse, so that
\* stage 3 runs
StageTwoFailed(text) ==
  /\ text # <<>>
  /\ ~Loads(text).ok
  /\ FindLB(text) # 0 /\ RFindRB(text) # 0 /\ RFindRB(text) > FindLB(text)
  /\ ~Loads(Candidate(text, FindLB(text), RFindRB(text))).ok

\* r223536 has run its recovery stages on result_text
Recovered223536 ==
  rev = "r223536" /\ (pc \in {"process", "fallback", "return"} \/ Returned)

\* C11: stage 3 never recovers anything stage 2 did not.  The greedy
\* brace-block pattern matches exactly when the text has a { with a } after
\* it, and then matches the stretch from the first { to the last }, the
\* candidate of stage 2; so whenever stage 2 fails the recovered mapping is
\* empty, and the three stages give what stages 1 and 2 alone give.
C11_StageThreeAddsNothing ==
  Recovered223536 =>
    LET text == result_text.toks
        m == GreedyBraceBlock(text)
        first == FindLB(text)
        last == RFindRB(text)
    IN  /\ m.found <=> (first # 0 /\ last # 0 /\ last > first)
        /\ m.found => m.block = SubSeq(text, first, last)
        /\ StageTwoFailed(text) => result = DictResult(EmptyDict)
        /\ result = RecoverTwoStages(text)

\* C11 witness: stage 3 ran, on a text where an object is followed by prose
\* that holds a closing brace, and the recovered mapping is empty
C11_Witness ==
  /\ Recovered223536
  /\ StageTwoFailed(result_text.toks)
  /\ GreedyBraceBlock(result_text.toks).found
  /\ Loads(ObjectPart(result_text.toks)).isdict
  /\ Loads(ObjectPart(result_text.toks)).d # EmptyDict
  /\ result = DictResult(EmptyDict)

====
